---- MODULE Spec2Model ----
(***************************************************************************)
(* PantryScanner: the change extractor, the name normaliser and the        *)
(* inventory reconciler (pantry_scanner.py) over the PostgreSQL tables     *)
(* pantry_scans, pantry_items and inventory_changes (database.py).         *)
(*                                                                         *)
(* A Python / SQL string is a sequence of one-character strings, so that   *)
(* upper(), lower(), strip(), split(), LIKE and the regular expressions    *)
(* are computed character by character.                                    *)
(***************************************************************************)
EXTENDS Integers, Sequences, FiniteSets, TLC

(***************************************************************************)
(* Bounds of the model.                                                    *)
(***************************************************************************)
\* script invocations (python pantry_scanner.py) in one behaviour
MaxRuns == 2
\* item lines the vision model reports over one behaviour
MaxEvents == 3
\* characters of an item line after its dash, when a function is applied on
\* its own
MaxDescLen == 4
\* applications of the name normaliser to one description
MaxApplications == 2
\* lines of a free-form response handed to the change extractor on its own
MaxTextLines == 3
\* item lines per section of a block in the format the prompt asks for
MaxBlockItems == 2

\* database calls of one behaviour of DbSpec
MaxCalls == 4

(***************************************************************************)
(* Characters and the string primitives of Python and PostgreSQL.          *)
(***************************************************************************)
Lowers == <<"a","b","c","d","e","f","g","h","i","j","k","l","m",
            "n","o","p","q","r","s","t","u","v","w","x","y","z">>

Uppers == <<"A","B","C","D","E","F","G","H","I","J","K","L","M",
            "N","O","P","Q","R","S","T","U","V","W","X","Y","Z">>

Digits == {"0","1","2","3","4","5","6","7","8","9"}

Whitespace == {" ", "\t", "\n", "\r"}

UpperOf == [ch \in {Lowers[i] : i \in 1..26} |->
               Uppers[CHOOSE i \in 1..26 : Lowers[i] = ch]]

LowerOf == [ch \in {Uppers[i] : i \in 1..26} |->
               Lowers[CHOOSE i \in 1..26 : Uppers[i] = ch]]

ToUpper(ch) == IF ch \in DOMAIN UpperOf THEN UpperOf[ch] ELSE ch

ToLower(ch) == IF ch \in DOMAIN LowerOf THEN LowerOf[ch] ELSE ch

\* str.upper()
Upper(s) == [i \in 1..Len(s) |-> ToUpper(s[i])]

\* str.lower() and SQL LOWER()
Lower(s) == [i \in 1..Len(s) |-> ToLower(s[i])]

\* s[i:i+len(sub)] == sub
OccursAt(sub, s, i) ==
    /\ i + Len(sub) - 1 <= Len(s)
    /\ \A j \in 1..Len(sub) : s[i + j - 1] = sub[j]

\* sub in s
Contains(sub, s) ==
    \E i \in 1..(Len(s) - Len(sub) + 1) : OccursAt(sub, s, i)

\* s.startswith(sub)
StartsWith(s, sub) == OccursAt(sub, s, 1)

\* the first position whose character is not in chars, Len(s) + 1 if none
SkipRight(s, chars) ==
    CHOOSE i \in 1..(Len(s) + 1) :
        /\ i = Len(s) + 1 \/ s[i] \notin chars
        /\ \A j \in 1..(i - 1) : s[j] \in chars

\* the last position whose character is not in chars, 0 if none
SkipLeft(s, chars) ==
    CHOOSE i \in 0..Len(s) :
        /\ i = 0 \/ s[i] \notin chars
        /\ \A j \in (i + 1)..Len(s) : s[j] \in chars

\* s.lstrip(chars)
LStripChars(s, chars) == SubSeq(s, SkipRight(s, chars), Len(s))

\* s.rstrip(chars)
RStripChars(s, chars) == SubSeq(s, 1, SkipLeft(s, chars))

\* s.strip()
Strip(s) == LStripChars(RStripChars(s, Whitespace), Whitespace)

\* the first position from start on where sub occurs in s, Len(s) + 2 if
\* there is none
Find(sub, s, start) ==
    CHOOSE i \in start..(Len(s) + 2) :
        /\ i = Len(s) + 2 \/ OccursAt(sub, s, i)
        /\ \A j \in start..(i - 1) : ~OccursAt(sub, s, j)

\* s.split(sep)[0]
SplitFirst(s, sep) ==
    IF Contains(sep, s) THEN SubSeq(s, 1, Find(sep, s, 1) - 1) ELSE s

\* s.replace(old, ''), old non-empty, occurrences taken left to right
RECURSIVE Remove(_, _)
Remove(s, old) ==
    IF Len(s) < Len(old) THEN s
    ELSE IF OccursAt(old, s, 1)
         THEN Remove(SubSeq(s, Len(old) + 1, Len(s)), old)
         ELSE <<s[1]>> \o Remove(Tail(s), old)

\* s.split('\n'): the lines of s from position start on; k is the position
\* of the next newline
RECURSIVE SplitAt(_, _, _)
SplitAt(s, start, k) ==
    IF k > Len(s) THEN <<SubSeq(s, start, Len(s))>>
    ELSE <<SubSeq(s, start, k - 1)>>
           \o SplitAt(s, k + 1, Find(<<"\n">>, s, k + 1))

SplitLines(s) == SplitAt(s, 1, Find(<<"\n">>, s, 1))

\* SQL: s LIKE pattern, with the default escape character backslash
RECURSIVE Like(_, _)
Like(s, p) ==
    IF p = <<>> THEN s = <<>>
    ELSE IF p[1] = "%"
         THEN Like(s, Tail(p)) \/ (s # <<>> /\ Like(Tail(s), p))
    ELSE IF p[1] = "_"
         THEN s # <<>> /\ Like(Tail(s), Tail(p))
    ELSE IF p[1] = "\\" /\ Len(p) >= 2
         THEN s # <<>> /\ s[1] = p[2] /\ Like(Tail(s), Tail(Tail(p)))
    ELSE s # <<>> /\ s[1] = p[1] /\ Like(Tail(s), Tail(p))

(***************************************************************************)
(* Name Normalizer: PantryScanner.extract_item_name.                       *)
(***************************************************************************)
MaxNameLen == 100

Separators == << <<" ", "-", " ">>, <<" ", "(">>, <<" ", " ">> >>

TrailingPunct == {".", ",", ";", ":"}

\* one pass of the separator loop
CutAt(item, sep) ==
    IF Contains(sep, item) THEN Strip(SplitFirst(item, sep)) ELSE item

\* if len(item) > 100: item = item[:100].strip()
Cap(item) ==
    IF Len(item) > MaxNameLen
    THEN Strip(SubSeq(item, 1, MaxNameLen))
    ELSE item

extract_item_name(full_description) ==
    Cap(RStripChars(
            CutAt(CutAt(CutAt(Strip(full_description), Separators[1]),
                        Separators[2]),
                  Separators[3]),
            TrailingPunct))

(***************************************************************************)
(* Change Extractor: PantryScanner.parse_changes.                          *)
(***************************************************************************)
Str_ADDED == <<"A","D","D","E","D">>

Str_REMOVED == <<"R","E","M","O","V","E","D">>

Str_ITEM == <<"I","T","E","M">>

Str_QUANTITY == <<"Q","U","A","N","T","I","T","Y">>

Str_CHANGED == <<"C","H","A","N","G","E","D">>

Str_Summary == <<"*","*","S","u","m","m","a","r","y">>

Str_ItemsUnchanged ==
    <<"I","t","e","m","s"," ","U","n","c","h","a","n","g","e","d">>

NoChangePhrases ==
    { <<"n","o","n","e">>,
      <<"n","o","n","e"," ","d","e","t","e","c","t","e","d">>,
      <<"n","o"," ","c","h","a","n","g","e","s"," ",
        "d","e","t","e","c","t","e","d">> }

\* U+2022 BULLET, one character
Bullet == "u2022"

BulletChars == {"-", "*", Bullet}

\* re.match(r'^\d+\.', line)
MatchesNumbered(line) ==
    \E k \in 1..Len(line) :
        /\ k >= 2
        /\ line[k] = "."
        /\ \A j \in 1..(k - 1) : line[j] \in Digits

\* re.sub(r'^[-*\u2022\d.]+\s*', '', line)
StripPrefix(line) ==
    LET lead == BulletChars \cup Digits \cup {"."}
        rest == LStripChars(line, lead)
    IN  IF Len(rest) = Len(line) THEN line
        ELSE LStripChars(rest, Whitespace)

NoSection == "none"

EmptyChanges == [added |-> <<>>, removed |-> <<>>, changed |-> <<>>]

\* variant: the sentinel phrases are compared without lower()
KeptCaseSensitive(item) == item # <<>> /\ item \notin NoChangePhrases

\* if item and item.lower() not in ['none', 'none detected', ...]
Kept(item) == item # <<>> /\ Lower(item) \notin NoChangePhrases

\* variant: only a heading marker resets the section
ResetsSectionHeadingOnly(line) == StartsWith(line, <<"#">>)

\* line.startswith('#') or line.startswith('**Summary')
\*   or 'Items Unchanged' in line
ResetsSection(line) ==
    \/ StartsWith(line, <<"#">>)
    \/ StartsWith(line, Str_Summary)
    \/ Contains(Str_ItemsUnchanged, line)

\* the body of the loop over the lines, for the stripped line and its
\* upper-case form: st = [section, changes]
ParseStripped(st, line, up) ==
    IF Contains(Str_ADDED, up) /\ Contains(Str_ITEM, up)
    THEN [st EXCEPT !.section = "added"]
    ELSE IF Contains(Str_REMOVED, up) /\ Contains(Str_ITEM, up)
    THEN [st EXCEPT !.section = "removed"]
    ELSE IF Contains(Str_QUANTITY, up) /\ Contains(Str_CHANGED, up)
    THEN [st EXCEPT !.section = "changed"]
    ELSE IF ResetsSection(line)
    THEN [st EXCEPT !.section = NoSection]
    ELSE IF /\ st.section # NoSection
            /\ line # <<>>
            /\ \/ line[1] \in BulletChars
               \/ MatchesNumbered(line)
    THEN LET item == Remove(Strip(StripPrefix(line)), <<"*","*">>)
         IN  IF Kept(item)
             THEN [st EXCEPT !.changes[st.section] = Append(@, item)]
             ELSE st
    ELSE st

\* line_upper = line.upper()
ParseUpper(st, line) == ParseStripped(st, line, Upper(line))

\* line = line.strip()
ParseLine(st, raw) == ParseUpper(st, Strip(raw))

RECURSIVE ParseLines(_, _)
ParseLines(st, lines) ==
    IF lines = <<>> THEN st
    ELSE ParseLines(ParseLine(st, Head(lines)), Tail(lines))

parse_changes(analysis_text) ==
    ParseLines([section |-> NoSection, changes |-> EmptyChanges],
               SplitLines(analysis_text)).changes

(***************************************************************************)
(* Model responses.  The vision model answers with free text; the texts    *)
(* of the state machine are built from a small set of item descriptions.   *)
(***************************************************************************)
D_Cola == <<"C","o","l","a">>

D_COLA_can == <<"C","O","L","A"," ","-"," ","c","a","n">>

D_c_la == <<"c","_","l","a">>

D__l == <<"_","l">>

\* what the model reports as added: two spellings of one product and a
\* product whose name holds an underscore
AddedDescs == {D_Cola, D_COLA_can, D_c_la}

\* what it reports as removed: the two spellings and a partial name
RemovedDescs == {D_Cola, D_COLA_can, D__l}

\* what it reports as changed in quantity
ChangedDescs == {D_COLA_can}

Descs == AddedDescs \cup RemovedDescs \cup ChangedDescs

SeqsUpTo(S, n) == UNION {[1..k -> S] : k \in 0..n}

\* the added / removed / changed descriptions of one response, n lines in all
EventListsOf(n) ==
    UNION {[added : [1..i -> AddedDescs], removed : [1..j -> RemovedDescs],
            changed : [1..(n - i - j) -> ChangedDescs]] :
              <<i, j>> \in {ij \in (0..n) \X (0..n) : ij[1] + ij[2] <= n}}

Lines(e) == Len(e.added) + Len(e.removed) + Len(e.changed)

Hdr_Added == <<"A","D","D","E","D"," ","I","T","E","M","S",":","\n">>

Hdr_Removed == <<"R","E","M","O","V","E","D"," ","I","T","E","M","S",":","\n">>

Hdr_Changed == <<"Q","U","A","N","T","I","T","Y"," ",
                 "C","H","A","N","G","E","D",":","\n">>

Line_None == <<"-"," ","N","o","n","e"," ","d","e","t","e","c","t","e","d","\n">>

RECURSIVE Bullets(_)
Bullets(ds) ==
    IF ds = <<>> THEN <<>>
    ELSE <<"-", " ">> \o Head(ds) \o <<"\n">> \o Bullets(Tail(ds))

Section(ds) == IF ds = <<>> THEN Line_None ELSE Bullets(ds)

\* a comparison response in the format the prompt asks for
ComparisonText(e) ==
    Hdr_Added \o Section(e.added) \o Hdr_Removed \o Section(e.removed)
      \o Hdr_Changed \o Section(e.changed)

\* an initial-inventory response: one dash line per item
InitialText(ds) == Bullets(ds)

\* analyze_initial_inventory: the lines starting with '-'
RECURSIVE InitialItems(_)
InitialItems(lines) ==
    IF lines = <<>> THEN <<>>
    ELSE LET line == Strip(Head(lines))
             item == Strip(LStripChars(line, {"-", " "}))
         IN  IF StartsWith(line, <<"-">>) /\ item # <<>>
             THEN <<item>> \o InitialItems(Tail(lines))
             ELSE InitialItems(Tail(lines))

Str_InitialScanPrefix ==
    <<"I","n","i","t","i","a","l"," ","s","c","a","n",":"," ">>

Str_initial_scan ==
    <<"i","n","i","t","i","a","l","_","s","c","a","n">>

Str_InitialInventoryScan ==
    <<"I","n","i","t","i","a","l"," ","i","n","v","e","n","t","o","r","y",
      " ","s","c","a","n">>

\* message.usage of one comparison call
Usage == [input_tokens |-> 1200, output_tokens |-> 300]

\* dollars per million tokens, so micro-dollars per token
InputRate == 3

OutputRate == 15

ApiCost(input_tokens, output_tokens) ==
    input_tokens * InputRate + output_tokens * OutputRate

\* every text compare_images_with_claude can hand to save_to_database
Responses ==
    {ComparisonText(e) : e \in UNION {EventListsOf(n) : n \in 0..MaxEvents}}

\* self.parse_changes(analysis_text), worked out once per response
ParsedChanges == [t \in Responses |-> parse_changes(t)]

ChangesOf(analysis_text) ==
    IF analysis_text \in DOMAIN ParsedChanges
    THEN ParsedChanges[analysis_text]
    ELSE parse_changes(analysis_text)

\* self.extract_item_name(item), worked out once per description
CleanNames == [d \in Descs |-> extract_item_name(d)]

CleanNameOf(item) ==
    IF item \in DOMAIN CleanNames
    THEN CleanNames[item]
    ELSE extract_item_name(item)

(***************************************************************************)
(* PantryDatabase: the statements of save_scan, add_item, remove_item and  *)
(* log_change over the three tables.  A table is the sequence of its rows  *)
(* in insertion order; rows are never deleted, so a SERIAL key is the      *)
(* row's position.                                                         *)
(***************************************************************************)
\* SQL NULL / Python None: no character string equals it
NULL == <<"NULL">>

Max(a, b) == IF a >= b THEN a ELSE b

\* INSERT INTO pantry_scans ... RETURNING scan_id
NewScanId(scs) == Len(scs) + 1

ScanRow(scs, t, image_path, raw_analysis, api_cost, input_tokens, output_tokens) ==
    [scan_id |-> NewScanId(scs), scan_date |-> t, image_path |-> image_path,
     raw_analysis |-> raw_analysis, api_cost |-> api_cost,
     input_tokens |-> input_tokens, output_tokens |-> output_tokens]

\* variant: the identifier of the row before the inserted one
ReturnedScanIdStale(row) == row.scan_id - 1

\* save_scan: scan_id = cursor.fetchone()[0] of the RETURNING clause
ReturnedScanId(row) == row.scan_id

\* variant: WHERE item_name = %s
ExactMatchesCaseSensitive(its, item_name) ==
    {i \in 1..Len(its) : its[i].item_name = item_name}

\* variant: WHERE LOWER(item_name) = %s
ExactMatchesOneSided(its, item_name) ==
    {i \in 1..Len(its) : Lower(its[i].item_name) = item_name}

\* WHERE LOWER(item_name) = LOWER(%s)
ExactMatches(its, item_name) ==
    {i \in 1..Len(its) : Lower(its[i].item_name) = Lower(item_name)}

\* WHERE LOWER(item_name) LIKE LOWER('%name%') AND is_active = TRUE
FuzzyMatches(its, item_name) ==
    {i \in 1..Len(its) :
        /\ Like(Lower(its[i].item_name), Lower(<<"%">> \o item_name \o <<"%">>))
        /\ its[i].is_active}

\* INSERT INTO pantry_items (item_name, category), the other columns default
NewItemRow(its, item_name, category, t) ==
    [item_id |-> Len(its) + 1, item_name |-> item_name, category |-> category,
     first_detected |-> t, last_seen |-> t,
     current_quantity |-> 1, is_active |-> TRUE]

\* add_item: SET last_seen = NOW(), is_active = TRUE, quantity + 1
IncrementRow(row, t) ==
    [row EXCEPT !.last_seen = t, !.is_active = TRUE,
                !.current_quantity = @ + 1]

\* variant: is_active = CASE WHEN quantity <= 0 THEN FALSE ELSE TRUE END
DecrementRowActiveLate(row, t) ==
    [row EXCEPT !.current_quantity = Max(@ - 1, 0),
                !.is_active = ~(row.current_quantity <= 0),
                !.last_seen = t]

\* variant: quantity = quantity - 1, without GREATEST
DecrementRowNoFloor(row, t) ==
    [row EXCEPT !.current_quantity = @ - 1,
                !.is_active = ~(row.current_quantity <= 1),
                !.last_seen = t]

\* remove_item: SET quantity = GREATEST(quantity - 1, 0),
\* is_active = CASE WHEN quantity <= 1 THEN FALSE ELSE TRUE END, last_seen
DecrementRow(row, t) ==
    [row EXCEPT !.current_quantity = Max(@ - 1, 0),
                !.is_active = ~(row.current_quantity <= 1),
                !.last_seen = t]

\* variant: the existence check as SELECT ... WHERE item_name = %s
AddTargetsCaseSensitive(its, item_name) ==
    IF ExactMatchesCaseSensitive(its, item_name) # {}
    THEN {{i} : i \in ExactMatchesCaseSensitive(its, item_name)}
    ELSE {{}}

\* add_item: the rows the UPDATE may touch (fetchone of the SELECT), or
\* none when the item is inserted
AddTargets(its, item_name) ==
    IF ExactMatches(its, item_name) # {}
    THEN {{i} : i \in ExactMatches(its, item_name)}
    ELSE {{}}

add_item(its, item_name, tgt, t) ==
    IF tgt # {}
    THEN [i \in 1..Len(its) |->
             IF i \in tgt THEN IncrementRow(its[i], t) ELSE its[i]]
    ELSE Append(its, NewItemRow(its, item_name, NULL, t))

\* variant: the exact UPDATE restricted to active rows (AND is_active), so
\* that an inactive row of that name lets the fuzzy fallback run
RemoveTargetsActiveExact(its, item_name) ==
    IF {i \in ExactMatches(its, item_name) : its[i].is_active} # {}
    THEN {{i \in ExactMatches(its, item_name) : its[i].is_active}}
    ELSE IF FuzzyMatches(its, item_name) # {}
    THEN {{i} : i \in FuzzyMatches(its, item_name)}
    ELSE {{}}

\* remove_item: the sets of rows the call may update: every exact match,
\* else one fuzzy match (LIMIT 1 without ORDER BY), else nothing
RemoveTargets(its, item_name) ==
    IF ExactMatches(its, item_name) # {}
    THEN {ExactMatches(its, item_name)}
    ELSE IF FuzzyMatches(its, item_name) # {}
    THEN {{i} : i \in FuzzyMatches(its, item_name)}
    ELSE {{}}

remove_item(its, tgt, t) ==
    [i \in 1..Len(its) |->
        IF i \in tgt THEN DecrementRow(its[i], t) ELSE its[i]]

\* variant: the change_type column written as a fixed literal
ChangeRowKindFixed(chs, t, sid, item_name, change_type, details) ==
    [change_id |-> Len(chs) + 1, scan_id |-> sid, item_name |-> item_name,
     change_type |-> "added", details |-> details, detected_at |-> t]

\* INSERT INTO inventory_changes (scan_id, item_name, change_type, details)
ChangeRow(chs, t, sid, item_name, change_type, details) ==
    [change_id |-> Len(chs) + 1, scan_id |-> sid, item_name |-> item_name,
     change_type |-> change_type, details |-> details, detected_at |-> t]

\* get_item_history: the pairs (change, scan) of inventory_changes ic JOIN
\* pantry_scans ps ON ic.scan_id = ps.scan_id
\* WHERE LOWER(ic.item_name) = LOWER(%s)
HistoryJoin(chs, scs, item_name) ==
    {p \in (1..Len(chs)) \X (1..Len(scs)) :
        /\ chs[p[1]].scan_id = scs[p[2]].scan_id
        /\ Lower(chs[p[1]].item_name) = Lower(item_name)}

\* SELECT ic.change_type, ic.details, ic.detected_at, ps.scan_date
HistoryRow(chs, scs, p) ==
    <<chs[p[1]].change_type, chs[p[1]].details, chs[p[1]].detected_at,
      scs[p[2]].scan_date>>

\* ORDER BY ic.detected_at DESC (rows of one detected_at in any one order)
RECURSIVE HistoryOrdered(_, _, _)
HistoryOrdered(chs, scs, ps) ==
    IF ps = {} THEN <<>>
    ELSE LET p == CHOOSE q \in ps :
                     \A o \in ps :
                         chs[o[1]].detected_at <= chs[q[1]].detected_at
         IN  <<HistoryRow(chs, scs, p)>>
                 \o HistoryOrdered(chs, scs, ps \ {p})

\* get_item_history(item_name): cursor.fetchall()
get_item_history(chs, scs, item_name) ==
    HistoryOrdered(chs, scs, HistoryJoin(chs, scs, item_name))

\* get_statistics()['active_items']
ActiveItems(its) == Cardinality({i \in 1..Len(its) : its[i].is_active})

(***************************************************************************)
(* The state machine: script invocations of pantry_scanner.py (main), one  *)
(* at a time, each a PantryScanner() followed by run_comparison().         *)
(***************************************************************************)
VARIABLES
    scans,           \* table pantry_scans
    items,           \* table pantry_items
    changes,         \* table inventory_changes
    now,             \* the database clock NOW(), one tick per transaction
    previous_image,  \* previous.jpg: 0 when absent, else the run that took it
    current_image,   \* current.jpg, likewise
    run,             \* number of the script invocation
    pc,              \* position of the running invocation, "idle" when none
    result,          \* how the latest invocation ended
    db,              \* self.db is not None
    mode,            \* "compare": save_to_database, "initial": first inventory
    response_text,   \* the model's answer of this run
    scan_id,         \* the scan_id returned by save_scan in this run
    todo,            \* the items the three loops still have to process
    hist,            \* history: who wrote which row, events per name
    last,            \* history: the latest database mutation call
    trial            \* a function applied on its own: argument and results

vars == <<scans, items, changes, now, previous_image, current_image, run, pc,
          result, db, mode, response_text, scan_id, todo, hist, last, trial>>

tables == <<scans, items, changes>>

images == <<previous_image, current_image>>

\* the names the reconciler can see, by their case-folded spelling
Keys == {Lower(extract_item_name(d)) : d \in Descs}

NoCall ==
    [op |-> "none", ok |-> TRUE, name |-> <<>>, tgt |-> {},
     items |-> <<>>, changes |-> <<>>, mode |-> "compare"]

\* no function is applied on its own
NoTrial == [arg |-> <<>>, via |-> "none", ret |-> <<>>]

\* empty tables, no image on disk, no script running
Start ==
    /\ scans = <<>>
    /\ items = <<>>
    /\ changes = <<>>
    /\ now = 0
    /\ previous_image = 0
    /\ current_image = 0
    /\ run = 0
    /\ pc = "idle"
    /\ result = "none"
    /\ db = FALSE
    /\ mode = "compare"
    /\ response_text = <<>>
    /\ scan_id = 0
    /\ todo = EmptyChanges
    /\ hist = [scan_run |-> <<>>, change_run |-> <<>>,
               adds |-> [k \in Keys |-> 0], removes |-> [k \in Keys |-> 0],
               add_after_remove |-> [k \in Keys |-> FALSE],
               fuzzy_hits |-> [k \in Keys |-> 0],
               db_failed |-> FALSE, failure |-> "none", lines |-> 0,
               begin |-> [items |-> <<>>, changes |-> <<>>]]
    /\ last = NoCall

Init == Start /\ trial = NoTrial

\* where the three loops of save_to_database (or the loop of the initial
\* inventory) continue: added first, then removed, then changed
LoopPc(td, md) ==
    IF td.added # <<>> THEN "add_item"
    ELSE IF td.removed # <<>> THEN "remove_item"
    ELSE IF td.changed # <<>> THEN "log_changed"
    ELSE IF md = "compare" THEN "finish"
    ELSE "idle"

\* variant: the handler sits inside the loop and the call is tried again
OnDbErrorRetry(md) ==
    IF pc = "save_scan" THEN "save_scan" ELSE LoopPc(todo, md)

\* variant: the exception is re-raised to the caller of run_comparison
OnDbErrorReraise(md) == "idle"

\* where an exception of a database call ends up: save_to_database prints
\* it and returns; the initial-inventory loop has no handler
OnDbError(md) == IF md = "compare" THEN "finish" ELSE "idle"

\* the process ends: its locals are gone
EndRun(how) ==
    /\ pc' = "idle"
    /\ result' = how
    /\ response_text' = <<>>
    /\ scan_id' = 0
    /\ todo' = EmptyChanges
    /\ mode' = "compare"

\* a database call raised: its own transaction is rolled back
DbError(op, name) ==
    /\ UNCHANGED <<tables, images, run, db>>
    /\ now' = now + 1
    /\ hist' = [hist EXCEPT !.db_failed = TRUE]
    /\ last' = [op |-> op, ok |-> FALSE, name |-> name, tgt |-> {},
                items |-> items, changes |-> changes, mode |-> mode]
    /\ IF OnDbError(mode) = "idle"
       THEN EndRun("raised")
       ELSE /\ pc' = OnDbError(mode)
            /\ UNCHANGED <<result, response_text, scan_id, todo, mode>>

\* a loop body finished with the remaining work td
Continue(td) ==
    IF LoopPc(td, mode) = "idle"
    THEN EndRun("baseline")
    ELSE /\ pc' = LoopPc(td, mode)
         /\ todo' = td
         /\ UNCHANGED <<result, response_text, scan_id, mode>>

\* variant: every failed call of the vision model is re-raised
ApiErrorOutcomeFatal(path) == "raised"

\* how the run ends when the call of the vision model raises:
\* compare_images_with_claude prints and re-raises, while
\* analyze_initial_inventory prints and returns []
ApiErrorOutcome(path) == IF path = "compare" THEN "raised" ELSE "baseline"

\* item lines the model may still report
LinesLeft == MaxEvents - hist.lines

\* main(): PantryScanner.__init__
Main(connected) ==
    /\ pc = "idle"
    /\ UNCHANGED trial
    /\ run < MaxRuns
    /\ run' = run + 1
    /\ db' = connected
    /\ pc' = "run_comparison"
    /\ result' = "running"
    /\ now' = now + 1
    /\ hist' = [hist EXCEPT !.db_failed = FALSE, !.failure = "none",
                            !.begin = [items |-> items, changes |-> changes]]
    /\ last' = NoCall
    /\ UNCHANGED <<tables, images, mode, response_text, scan_id, todo>>

\* run_comparison up to the model call
RunComparison(captured) ==
    /\ pc = "run_comparison"
    /\ UNCHANGED trial
    /\ LET is_first_setup == db /\ ActiveItems(items) = 0 /\ Len(scans) = 0
       IN  IF ~captured
           THEN /\ EndRun("raised")
                /\ UNCHANGED images
           ELSE IF previous_image = 0
           THEN /\ current_image' = run
                /\ previous_image' = run
                /\ IF is_first_setup
                   THEN /\ pc' = "initial"
                        /\ UNCHANGED <<result, response_text, scan_id, todo, mode>>
                   ELSE EndRun("baseline")
           ELSE /\ current_image' = run
                /\ UNCHANGED previous_image
                /\ pc' = "compare"
                /\ UNCHANGED <<result, response_text, scan_id, todo, mode>>
    /\ hist' = [hist EXCEPT !.failure = IF captured THEN @ ELSE "camera"]
    /\ UNCHANGED <<tables, now, run, db, last>>

\* analyze_initial_inventory and the test "if self.db and initial_items";
\* the API call fails (answered = FALSE) or answers with the lines ds
AnalyzeInitial ==
    /\ pc = "initial"
    /\ UNCHANGED trial
    /\ \E answered \in BOOLEAN, ds \in SeqsUpTo(AddedDescs, LinesLeft) :
          /\ answered \/ ds = <<>>
          /\ hist' = [hist EXCEPT !.lines = @ + Len(ds),
                                  !.failure = IF answered THEN @
                                              ELSE "api_initial"]
          /\ LET initial_items ==
                     IF answered
                     THEN InitialItems(SplitLines(InitialText(ds)))
                     ELSE <<>>
             IN  IF ~answered
                 THEN EndRun(ApiErrorOutcome("initial"))
                 ELSE IF db /\ initial_items # <<>>
                 THEN /\ pc' = "save_scan"
                      /\ mode' = "initial"
                      /\ todo' = [EmptyChanges EXCEPT !.added = initial_items]
                      /\ UNCHANGED <<result, response_text, scan_id>>
                 ELSE EndRun("baseline")
    /\ UNCHANGED <<tables, images, now, run, db, last>>

\* compare_images_with_claude up to its call of save_to_database; the API
\* call fails (answered = FALSE) or answers with the text of e
CompareImages ==
    /\ pc = "compare"
    /\ UNCHANGED trial
    /\ \E answered \in BOOLEAN, n \in 0..LinesLeft :
          \E e \in EventListsOf(n) :
             /\ answered \/ n = 0
             /\ hist' = [hist EXCEPT !.lines = @ + n,
                                     !.failure = IF answered THEN @
                                                 ELSE "api_compare"]
             /\ IF ~answered
                THEN EndRun(ApiErrorOutcome("compare"))
                ELSE /\ response_text' = ComparisonText(e)
                     /\ pc' = IF db THEN "save_scan" ELSE "finish"
                     /\ UNCHANGED <<result, scan_id, todo, mode>>
    /\ UNCHANGED <<tables, images, now, run, db, last>>

\* db.save_scan, then parse_changes
SaveScan(ok) ==
    /\ pc = "save_scan"
    /\ UNCHANGED trial
    /\ IF ~ok
       THEN DbError("save_scan", <<>>)
       ELSE LET row == IF mode = "compare"
                       THEN ScanRow(scans, now, NULL, response_text,
                                    ApiCost(Usage.input_tokens,
                                            Usage.output_tokens),
                                    Usage.input_tokens, Usage.output_tokens)
                       ELSE ScanRow(scans, now, Str_initial_scan,
                                    Str_InitialInventoryScan, 0, 0, 0)
                Loops(td) ==
                    IF LoopPc(td, mode) = "idle"
                    THEN EndRun("baseline")
                    ELSE /\ pc' = LoopPc(td, mode)
                         /\ todo' = td
                         /\ scan_id' = ReturnedScanId(row)
                         /\ UNCHANGED <<result, response_text, mode>>
            IN  /\ scans' = Append(scans, row)
                /\ now' = now + 1
                /\ hist' = [hist EXCEPT !.scan_run = Append(@, run)]
                /\ last' = [op |-> "save_scan", ok |-> TRUE, name |-> <<>>,
                            tgt |-> {}, items |-> items, changes |-> changes,
                            mode |-> mode]
                /\ Loops(IF mode = "compare"
                         THEN ChangesOf(response_text) ELSE todo)
                /\ UNCHANGED <<items, changes, images, run, db>>

\* history bookkeeping of one successful add_item / remove_item
CountAdd(h, name) ==
    LET k == Lower(name)
    IN  [h EXCEPT !.adds[k] = @ + 1,
                  !.add_after_remove[k] = @ \/ h.removes[k] > 0]

CountRemove(h, name, tgt) ==
    LET k == Lower(name)
    IN  [h EXCEPT !.removes[k] = @ + 1,
                  !.fuzzy_hits =
                      [c \in Keys |->
                          IF \E i \in tgt : Lower(items[i].item_name) = c /\ c # k
                          THEN @[c] + 1 ELSE @[c]]]

\* the description being processed and the details logged for it
Details(item) ==
    IF mode = "initial" THEN Str_InitialScanPrefix \o item ELSE item

\* self.db.add_item(clean_name)
AddItem(ok) ==
    /\ pc = "add_item"
    /\ UNCHANGED trial
    /\ LET clean_name == CleanNameOf(Head(todo.added))
       IN  IF ~ok
           THEN DbError("add_item", clean_name)
           ELSE \E tgt \in AddTargets(items, clean_name) :
                   /\ items' = add_item(items, clean_name, tgt, now)
                   /\ now' = now + 1
                   /\ hist' = CountAdd(hist, clean_name)
                   /\ last' = [op |-> "add_item", ok |-> TRUE,
                               name |-> clean_name, tgt |-> tgt,
                               items |-> items, changes |-> changes,
                               mode |-> mode]
                   /\ pc' = "log_added"
                   /\ UNCHANGED <<scans, changes, images, run, db, result,
                                  response_text, scan_id, todo, mode>>

\* self.db.log_change(scan_id, clean_name, 'added', item)
LogAdded(ok) ==
    /\ pc = "log_added"
    /\ UNCHANGED trial
    /\ LET item == Head(todo.added)
           clean_name == CleanNameOf(item)
       IN  IF ~ok
           THEN DbError("log_added", clean_name)
           ELSE /\ changes' = Append(changes,
                       ChangeRow(changes, now, scan_id, clean_name, "added",
                                 Details(item)))
                /\ now' = now + 1
                /\ hist' = [hist EXCEPT !.change_run = Append(@, run)]
                /\ last' = [last EXCEPT !.op = "log_added", !.ok = TRUE,
                                        !.changes = changes]
                /\ Continue([todo EXCEPT !.added = Tail(@)])
                /\ UNCHANGED <<scans, items, images, run, db>>

\* self.db.remove_item(clean_name)
RemoveItem(ok) ==
    /\ pc = "remove_item"
    /\ UNCHANGED trial
    /\ LET clean_name == CleanNameOf(Head(todo.removed))
       IN  IF ~ok
           THEN DbError("remove_item", clean_name)
           ELSE \E tgt \in RemoveTargets(items, clean_name) :
                   /\ items' = remove_item(items, tgt, now)
                   /\ now' = now + 1
                   /\ hist' = CountRemove(hist, clean_name, tgt)
                   /\ last' = [op |-> "remove_item", ok |-> TRUE,
                               name |-> clean_name, tgt |-> tgt,
                               items |-> items, changes |-> changes,
                               mode |-> mode]
                   /\ pc' = "log_removed"
                   /\ UNCHANGED <<scans, changes, images, run, db, result,
                                  response_text, scan_id, todo, mode>>

\* self.db.log_change(scan_id, clean_name, 'removed', item)
LogRemoved(ok) ==
    /\ pc = "log_removed"
    /\ UNCHANGED trial
    /\ LET item == Head(todo.removed)
           clean_name == CleanNameOf(item)
       IN  IF ~ok
           THEN DbError("log_removed", clean_name)
           ELSE /\ changes' = Append(changes,
                       ChangeRow(changes, now, scan_id, clean_name, "removed",
                                 Details(item)))
                /\ now' = now + 1
                /\ hist' = [hist EXCEPT !.change_run = Append(@, run)]
                /\ last' = [last EXCEPT !.op = "log_removed", !.ok = TRUE,
                                        !.changes = changes]
                /\ Continue([todo EXCEPT !.removed = Tail(@)])
                /\ UNCHANGED <<scans, items, images, run, db>>

\* self.db.log_change(scan_id, clean_name, 'quantity_changed', item)
LogChanged(ok) ==
    /\ pc = "log_changed"
    /\ UNCHANGED trial
    /\ LET item == Head(todo.changed)
           clean_name == CleanNameOf(item)
       IN  IF ~ok
           THEN DbError("log_changed", clean_name)
           ELSE /\ changes' = Append(changes,
                       ChangeRow(changes, now, scan_id, clean_name,
                                 "quantity_changed", Details(item)))
                /\ now' = now + 1
                /\ hist' = [hist EXCEPT !.change_run = Append(@, run)]
                /\ last' = [op |-> "log_changed", ok |-> TRUE,
                            name |-> clean_name, tgt |-> {},
                            items |-> items, changes |-> changes,
                            mode |-> mode]
                /\ Continue([todo EXCEPT !.changed = Tail(@)])
                /\ UNCHANGED <<scans, items, images, run, db>>

\* run_comparison after compare_images_with_claude returned: print the
\* result, archive, clean up, copy current to previous, "Scan complete!"
Finish ==
    /\ pc = "finish"
    /\ UNCHANGED trial
    /\ previous_image' = current_image
    /\ EndRun("complete")
    /\ UNCHANGED <<tables, current_image, now, run, db, hist, last>>

Next ==
    \/ \E connected \in BOOLEAN : Main(connected)
    \/ \E captured \in BOOLEAN : RunComparison(captured)
    \/ AnalyzeInitial
    \/ CompareImages
    \/ \E ok \in BOOLEAN : SaveScan(ok)
    \/ \E ok \in BOOLEAN : AddItem(ok)
    \/ \E ok \in BOOLEAN : LogAdded(ok)
    \/ \E ok \in BOOLEAN : RemoveItem(ok)
    \/ \E ok \in BOOLEAN : LogRemoved(ok)
    \/ \E ok \in BOOLEAN : LogChanged(ok)
    \/ Finish

Spec == Init /\ [][Next]_vars

(***************************************************************************)
(* The name normaliser applied on its own: one item line of a response is  *)
(* taken through parse_changes or through analyze_initial_inventory, and   *)
(* extract_item_name is applied to what comes out.                         *)
(***************************************************************************)
\* the variables of the running script
program == <<scans, items, changes, now, previous_image, current_image, run,
             pc, result, db, mode, response_text, scan_id, todo, hist, last>>

\* the characters the model writes after the dash of an item line
NormChars == {"a", " ", "-", "(", ".", "*"}

NormInputs == SeqsUpTo(NormChars, MaxDescLen)

\* the line "- <arg>" as the model writes it
DashLine(arg) == <<"-", " ">> \o arg

\* changes['added'] of a response with the one line under ADDED ITEMS
ViaChanges ==
    /\ trial.via = "none"
    /\ LET found == parse_changes(Hdr_Added \o DashLine(trial.arg)).added
       IN  /\ found # <<>>
           /\ trial' = [trial EXCEPT !.via = "changes", !.ret = <<found[1]>>]
    /\ UNCHANGED program

\* the items of an initial-inventory response with the one line
ViaInitial ==
    /\ trial.via = "none"
    /\ LET found == InitialItems(SplitLines(DashLine(trial.arg)))
       IN  /\ found # <<>>
           /\ trial' = [trial EXCEPT !.via = "initial", !.ret = <<found[1]>>]
    /\ UNCHANGED program

\* clean_name = self.extract_item_name(item), applied to the latest result
Normalize ==
    /\ trial.via # "none"
    /\ Len(trial.ret) <= MaxApplications
    /\ trial' = [trial EXCEPT
                    !.ret = Append(@, extract_item_name(@[Len(@)]))]
    /\ UNCHANGED program

NormInit ==
    /\ Start
    /\ trial \in [arg : NormInputs, via : {"none"}, ret : {<<>>}]

NormNext == ViaChanges \/ ViaInitial \/ Normalize

NormSpec == NormInit /\ [][NormNext]_vars

(***************************************************************************)
(* The change extractor applied on its own to a response of a few lines.   *)
(***************************************************************************)
\* a line without its line feed
Chomp(line) == SubSeq(line, 1, Len(line) - 1)

HeaderLines == {Chomp(Hdr_Added), Chomp(Hdr_Removed), Chomp(Hdr_Changed)}

\* lines of commentary the model puts between the sections
Line_Notes == <<"#"," ","N","o","t","e","s">>

Line_BoldSummary == <<"*","*","S","u","m","m","a","r","y","*","*">>

Line_Summary == <<"S","u","m","m","a","r","y",":">>

Line_ItemsUnchanged == <<"I","t","e","m","s"," ","U","n","c","h","a","n","g","e","d",":">>

CommentLines ==
    {Line_Notes, Line_BoldSummary, Line_Summary, Line_ItemsUnchanged}

\* item texts
T_Cola == <<"C","o","l","a">>

T_Tea == <<"T","e","a">>

T_AddedItem == <<"a","d","d","e","d"," ","i","t","e","m">>

T_BoldJam == <<"*","*","J","a","m","*","*">>

T_Rice == <<"R","i","c","e">>

T_Salt == <<"S","a","l","t">>

T_NoneDetected == SubSeq(Chomp(Line_None), 3, Len(Line_None) - 1)

\* item lines in the four bullet formats, a sentinel line, a bare line
ItemLines ==
    {DashLine(T_Cola), DashLine(T_AddedItem), DashLine(T_BoldJam),
     Chomp(Line_None), <<"*", " ">> \o T_Tea, <<"1", ".", " ">> \o T_Rice,
     <<Bullet, " ">> \o T_Salt, T_Cola}

TextLines == HeaderLines \cup CommentLines \cup ItemLines

\* '\n'.join(lines)
RECURSIVE JoinLines(_)
JoinLines(lines) ==
    IF lines = <<>> THEN <<>>
    ELSE IF Len(lines) = 1 THEN lines[1]
    ELSE lines[1] \o <<"\n">> \o JoinLines(Tail(lines))

DashLines(texts) == [i \in 1..Len(texts) |-> DashLine(texts[i])]

\* the item texts of a block in the prompt's format
BlockTexts == {T_Cola, T_Tea, T_AddedItem, T_NoneDetected}

\* ADDED ITEMS, its dash lines, REMOVED ITEMS, its dash lines
Block(ts, us) ==
    <<Chomp(Hdr_Added)>> \o DashLines(ts)
      \o <<Chomp(Hdr_Removed)>> \o DashLines(us)

Blocks ==
    {Block(ts, us) : ts \in SeqsUpTo(BlockTexts, MaxBlockItems),
                     us \in SeqsUpTo(BlockTexts, MaxBlockItems)}

ParseInputs == SeqsUpTo(TextLines, MaxTextLines) \cup Blocks

\* changes = self.parse_changes(analysis_text)
ParseChanges ==
    /\ trial.via = "none"
    /\ trial' = [trial EXCEPT
                    !.via = "parse",
                    !.ret = <<parse_changes(JoinLines(trial.arg))>>]
    /\ UNCHANGED program

ParseInit ==
    /\ Start
    /\ trial \in [arg : ParseInputs, via : {"none"}, ret : {<<>>}]

ParseNext == ParseChanges

ParseSpec == ParseInit /\ [][ParseNext]_vars

(***************************************************************************)
(* PantryDatabase driven call by call: add_item and remove_item applied to *)
(* the item table with the names save_to_database passes, starting from    *)
(* the empty table. Each call is a transaction of its own (commit, or      *)
(* rollback and re-raise).                                                 *)
(***************************************************************************)
\* the clean names the scanner passes to the database
DbNames == {CleanNames[d] : d \in Descs}

\* PantryDatabase.add_item(item_name)
CallAddItem(item_name, ok) ==
    /\ now < MaxCalls
    /\ IF ~ok
       THEN /\ last' = [op |-> "add_item", ok |-> FALSE, name |-> item_name,
                        tgt |-> {}, items |-> items, changes |-> changes,
                        mode |-> mode]
            /\ UNCHANGED <<items, now>>
       ELSE \E tgt \in AddTargets(items, item_name) :
               /\ items' = add_item(items, item_name, tgt, now)
               /\ now' = now + 1
               /\ last' = [op |-> "add_item", ok |-> TRUE, name |-> item_name,
                           tgt |-> tgt, items |-> items, changes |-> changes,
                           mode |-> mode]
    /\ UNCHANGED <<scans, changes, images, run, pc, result, db, mode,
                   response_text, scan_id, todo, hist, trial>>

\* PantryDatabase.remove_item(item_name)
CallRemoveItem(item_name, ok) ==
    /\ now < MaxCalls
    /\ IF ~ok
       THEN /\ last' = [op |-> "remove_item", ok |-> FALSE,
                        name |-> item_name, tgt |-> {}, items |-> items,
                        changes |-> changes, mode |-> mode]
            /\ UNCHANGED <<items, now>>
       ELSE \E tgt \in RemoveTargets(items, item_name) :
               /\ items' = remove_item(items, tgt, now)
               /\ now' = now + 1
               /\ last' = [op |-> "remove_item", ok |-> TRUE,
                           name |-> item_name, tgt |-> tgt, items |-> items,
                           changes |-> changes, mode |-> mode]
    /\ UNCHANGED <<scans, changes, images, run, pc, result, db, mode,
                   response_text, scan_id, todo, hist, trial>>

\* PantryDatabase(): connected, tables as setup_database.py leaves them
DbInit == Start /\ trial = NoTrial

DbNext ==
    \/ \E item_name \in DbNames, ok \in BOOLEAN : CallAddItem(item_name, ok)
    \/ \E item_name \in DbNames, ok \in BOOLEAN :
          CallRemoveItem(item_name, ok)

DbSpec == DbInit /\ [][DbNext]_vars

(***************************************************************************)
(* save_to_database on responses whose three sections come in any of the   *)
(* six orders: the second invocation of the script, the first one having   *)
(* stored the baseline image without a database connection, so that the    *)
(* tables are still empty when compare_images_with_claude saves.           *)
(***************************************************************************)
\* the item texts of a section: two spellings of one product and a text
\* that holds the words of a header
OrderDescs == {D_Cola, D_COLA_can, T_AddedItem}

\* the six orders of the three sections
Orders ==
    {o \in [1..3 -> {"added", "removed", "changed"}] :
        \A i, j \in 1..3 : o[i] = o[j] => i = j}

\* what the model reports in the three sections
OrderEvents ==
    [added : SeqsUpTo(OrderDescs, MaxBlockItems),
     removed : SeqsUpTo(OrderDescs, MaxBlockItems),
     changed : SeqsUpTo(ChangedDescs, 1)]

\* one section of a response: its header and its item lines
SectionPart(tag, e) ==
    IF tag = "added" THEN Hdr_Added \o Section(e.added)
    ELSE IF tag = "removed" THEN Hdr_Removed \o Section(e.removed)
    ELSE Hdr_Changed \o Section(e.changed)

\* a comparison response with its sections in the order o
SectionsText(o, e) ==
    SectionPart(o[1], e) \o SectionPart(o[2], e) \o SectionPart(o[3], e)

\* compare_images_with_claude has the answer and calls save_to_database
OrderInit ==
    /\ scans = <<>>
    /\ items = <<>>
    /\ changes = <<>>
    /\ now = 2
    /\ previous_image = 1
    /\ current_image = 2
    /\ run = 2
    /\ pc = "save_scan"
    /\ result = "running"
    /\ db = TRUE
    /\ mode = "compare"
    /\ scan_id = 0
    /\ todo = EmptyChanges
    /\ last = NoCall
    /\ trial \in [arg : OrderEvents, via : Orders, ret : {<<>>}]
    /\ response_text = SectionsText(trial.via, trial.arg)
    /\ hist = [scan_run |-> <<>>, change_run |-> <<>>,
               adds |-> [k \in Keys |-> 0], removes |-> [k \in Keys |-> 0],
               add_after_remove |-> [k \in Keys |-> FALSE],
               fuzzy_hits |-> [k \in Keys |-> 0],
               db_failed |-> FALSE, failure |-> "none",
               lines |-> Len(trial.arg.added) + Len(trial.arg.removed)
                           + Len(trial.arg.changed),
               begin |-> [items |-> <<>>, changes |-> <<>>]]

OrderNext ==
    \/ \E ok \in BOOLEAN : SaveScan(ok)
    \/ \E ok \in BOOLEAN : AddItem(ok)
    \/ \E ok \in BOOLEAN : LogAdded(ok)
    \/ \E ok \in BOOLEAN : RemoveItem(ok)
    \/ \E ok \in BOOLEAN : LogRemoved(ok)
    \/ \E ok \in BOOLEAN : LogChanged(ok)
    \/ Finish

OrderSpec == OrderInit /\ [][OrderNext]_vars

(***************************************************************************)
(* Properties.                                                             *)
(***************************************************************************)
\* quantity and active flag of every row
QtyActive(its) ==
    [i \in 1..Len(its) |-> <<its[i].current_quantity, its[i].is_active>>]

\* the rows of its whose name is name, ignoring letter case
RowsNamed(its, name) ==
    {i \in 1..Len(its) : Lower(its[i].item_name) = Lower(name)}

\* the active rows of its whose name contains name, ignoring letter case
ActiveContaining(its, name) ==
    {i \in 1..Len(its) :
        its[i].is_active /\ Contains(Lower(name), Lower(its[i].item_name))}

\* the latest database call was a successful remove_item, possibly followed
\* by its log_change
Removed == last.ok /\ last.op \in {"remove_item", "log_removed"}

\* C1 as stated: once a database call of a scan's save_to_database has
\* raised, the item table and the change table are what they were before
\* the scan (full rollback of the scan).
C1_FullRollback ==
    (hist.db_failed /\ last.mode = "compare" /\ pc \in {"finish", "idle"})
        => (items = hist.begin.items /\ changes = hist.begin.changes)

\* C1 amended: a database call that raises inside save_to_database rolls
\* back only itself; what the scan's earlier calls committed stays in the
\* tables and the scan's remaining events are not processed.
C1_OnlyFailedCallRolledBack ==
    (hist.db_failed /\ last.mode = "compare" /\ pc \in {"finish", "idle"})
        => (~last.ok /\ items = last.items /\ changes = last.changes)

C1_Witness ==
    /\ hist.db_failed /\ last.mode = "compare" /\ pc = "idle"
    /\ QtyActive(items) # QtyActive(hist.begin.items)
    /\ Len(changes) > Len(hist.begin.changes)

\* C2: every item row has current_quantity >= 0 and is active exactly when
\* its quantity is positive.
C2_QuantityAndActive ==
    \A i \in 1..Len(items) :
        /\ items[i].current_quantity >= 0
        /\ items[i].is_active <=> (items[i].current_quantity > 0)

C2_Witness ==
    /\ Removed
    /\ \E i \in last.tgt :
          /\ last.items[i].current_quantity = 1
          /\ items[i].current_quantity = 0 /\ ~items[i].is_active
    /\ \E i \in 1..Len(items) :
          items[i].current_quantity > 0 /\ items[i].is_active

\* C3: when a name has seen k adds followed by m > k removes, its item has
\* quantity 0 and is inactive, and no row is ever below 0.
C3_RemovesFloorAtZero ==
    /\ \A k \in Keys :
          (hist.removes[k] > hist.adds[k] /\ ~hist.add_after_remove[k])
              => \A i \in RowsNamed(items, k) :
                    items[i].current_quantity = 0 /\ ~items[i].is_active
    /\ \A i \in 1..Len(items) : items[i].current_quantity >= 0

C3_Witness ==
    \E k \in Keys :
        /\ hist.adds[k] >= 1
        /\ hist.removes[k] > hist.adds[k]
        /\ ~hist.add_after_remove[k]
        /\ RowsNamed(items, k) # {}
        /\ Removed /\ Lower(last.name) = k

\* C4: a name that has seen n >= 1 adds, in any letter case, and no remove
\* has exactly one row; the row is active and its quantity is n.
C4_AddsAreCounted ==
    \A k \in Keys :
        (hist.adds[k] >= 1 /\ hist.removes[k] = 0 /\ hist.fuzzy_hits[k] = 0)
            => /\ Cardinality(RowsNamed(items, k)) = 1
               /\ \A i \in RowsNamed(items, k) :
                     /\ items[i].is_active
                     /\ items[i].current_quantity = hist.adds[k]

C4_Witness ==
    /\ last.op = "add_item" /\ last.ok
    /\ \E i \in RowsNamed(items, last.name) :
          /\ items[i].item_name # last.name
          /\ items[i].current_quantity >= 2
    /\ hist.removes[Lower(last.name)] = 0
    /\ hist.fuzzy_hits[Lower(last.name)] = 0

\* C5 as stated: a remove event whose name has no exact match and no
\* active item containing it changes no item row, and a 'removed' change
\* record is written exactly for the remove events that had a match.
C5_UnmatchedRemoveIsDropped ==
    LET matched == \/ RowsNamed(last.items, last.name) # {}
                   \/ ActiveContaining(last.items, last.name) # {}
    IN  /\ (Removed /\ ~matched) => items = last.items
        /\ (last.ok /\ last.op = "log_removed") => matched

\* C6 as stated: a run in which a database mutation failed does not report
\* completion.
C6_FailureAbortsRun ==
    hist.db_failed => result # "complete"

\* C6 amended: a database mutation that fails inside save_to_database is
\* caught there; the run goes on, replaces the previous-image baseline and
\* reports completion.  Only a failure in the initial-inventory loop
\* reaches the caller of run_comparison.
C6_FailureIsSwallowed ==
    hist.db_failed =>
        IF last.mode = "compare"
        THEN \/ pc = "finish"
             \/ /\ pc = "idle" /\ result = "complete"
                /\ previous_image = run /\ current_image = run
        ELSE pc = "idle" /\ result = "raised"

C6_Witness ==
    /\ hist.db_failed /\ last.mode = "compare"
    /\ result = "complete" /\ previous_image = run

\* C7: a remove whose name equals a row's name up to letter case decrements
\* that row (to inactive from quantity 1) and an add of such a name
\* increments that row without creating another.
C7_CaseInsensitiveLookup ==
    /\ (Removed /\ RowsNamed(last.items, last.name) # {})
          => /\ last.tgt = RowsNamed(last.items, last.name)
             /\ \A i \in last.tgt :
                   /\ items[i].current_quantity =
                          Max(last.items[i].current_quantity - 1, 0)
                   /\ last.items[i].current_quantity <= 1 => ~items[i].is_active
    /\ (last.ok /\ last.op \in {"add_item", "log_added"}
           /\ RowsNamed(last.items, last.name) # {})
          => /\ Len(items) = Len(last.items)
             /\ last.tgt \subseteq RowsNamed(last.items, last.name)
             /\ \A i \in last.tgt :
                   items[i].current_quantity =
                       last.items[i].current_quantity + 1

C7_Witness ==
    /\ Removed
    /\ \E i \in last.tgt :
          /\ last.items[i].item_name # last.name
          /\ Lower(last.items[i].item_name) = Lower(last.name)
          /\ last.items[i].current_quantity = 1
          /\ ~items[i].is_active

\* C8 as stated: a remove with no exact match but with active items whose
\* names contain it decrements exactly one of those items and changes no
\* other item's quantity or active flag.
C8_FuzzyHitsOneContainingItem ==
    (/\ Removed
     /\ RowsNamed(last.items, last.name) = {}
     /\ ActiveContaining(last.items, last.name) # {})
        => \E i \in ActiveContaining(last.items, last.name) :
              /\ items[i].current_quantity =
                     Max(last.items[i].current_quantity - 1, 0)
              /\ items[i].is_active = (items[i].current_quantity > 0)
              /\ \A j \in 1..Len(items) :
                    j # i => QtyActive(items)[j] = QtyActive(last.items)[j]

\* C9: processing a quantity-changed event changes no item row and no scan
\* row; it appends one change record of kind 'quantity_changed' carrying
\* the scan's id (or nothing, when log_change raises).
C9_QuantityChangedOnlyLogs ==
    [][pc = "log_changed" =>
          /\ items' = items
          /\ scans' = scans
          /\ \/ changes' = changes /\ ~last'.ok
             \/ /\ last'.ok
                /\ Len(changes') = Len(changes) + 1
                /\ SubSeq(changes', 1, Len(changes)) = changes
                /\ changes'[Len(changes')].change_type = "quantity_changed"
                /\ changes'[Len(changes')].scan_id = scan_id
                /\ changes'[Len(changes')].item_name =
                       extract_item_name(Head(todo.changed))
                /\ changes'[Len(changes')].details = Head(todo.changed)]_vars

C9_Witness ==
    /\ last.op = "log_changed" /\ last.ok
    /\ items # <<>>
    /\ changes[Len(changes)].change_type = "quantity_changed"

\* C10: every change record carries the id of exactly one scan record, the
\* one written earlier by the run that wrote the change record.
C10_ChangeRefersToItsScan ==
    \A c \in 1..Len(changes) :
        LET owners == {n \in 1..Len(scans) :
                          scans[n].scan_id = changes[c].scan_id}
        IN  /\ Cardinality(owners) = 1
            /\ \A n \in owners :
                  /\ hist.scan_run[n] = hist.change_run[c]
                  /\ scans[n].scan_date <= changes[c].detected_at

C10_Witness ==
    /\ Len(scans) >= 2
    /\ \E c, d \in 1..Len(changes) : changes[c].scan_id # changes[d].scan_id

\* C11 as stated: normalising a normalised name returns it unchanged;
\* trial.ret holds the description and then the successive names.
C11_NormalizerIdempotent ==
    \A i \in 2..(Len(trial.ret) - 1) : trial.ret[i + 1] = trial.ret[i]

\* C12 as stated: no name that comes out of the normaliser holds the bold
\* marker, whether the description came from parse_changes or from an
\* initial-inventory line.
C12_NoBoldMarkerInName ==
    \A i \in 2..Len(trial.ret) : ~Contains(<<"*", "*">>, trial.ret[i])

\* the three lists the extractor returned
Sections == {"added", "removed", "changed"}

\* C13: no list of the extractor holds an empty string or a no-change
\* phrase in any letter case, and a response whose only item lines are the
\* sentinel line yields empty lists.
C13_NoChangePhrasesSuppressed ==
    trial.via = "parse" =>
        /\ \A sec \in Sections :
              \A i \in 1..Len(trial.ret[1][sec]) :
                  /\ trial.ret[1][sec][i] # <<>>
                  /\ Lower(trial.ret[1][sec][i]) \notin NoChangePhrases
        /\ (\A j \in 1..Len(trial.arg) :
                trial.arg[j] \in HeaderLines \cup {Chomp(Line_None)})
              => trial.ret[1] = EmptyChanges

C13_Witness ==
    /\ trial.via = "parse"
    /\ trial.arg = Block(<<T_Cola>>, <<T_NoneDetected>>)
    /\ trial.ret[1] = [EmptyChanges EXCEPT !.added = <<T_Cola>>]

\* item texts that are not no-change phrases
PlainTexts == {t \in BlockTexts : Lower(t) \notin NoChangePhrases}

\* C14 as stated: for an ADDED ITEMS header with k dash lines followed by a
\* REMOVED ITEMS header with m dash lines the extractor returns the k texts
\* in order as added, the m texts in order as removed, and nothing changed.
C14_BlockRoundTrip ==
    trial.via = "parse" =>
        \A ts, us \in SeqsUpTo(PlainTexts, MaxBlockItems) :
            trial.arg = Block(ts, us)
                => trial.ret[1] =
                       [added |-> ts, removed |-> us, changed |-> <<>>]

\* the line starts with a dash, an asterisk, a bullet or a digit-dot prefix
HasBulletPrefix(line) ==
    line # <<>> /\ (line[1] \in BulletChars \/ MatchesNumbered(line))

\* the text after the prefix is non-empty and not a no-change phrase
HasItemText(line) ==
    LET text == Strip(StripPrefix(line))
    IN  text # <<>> /\ Lower(text) \notin NoChangePhrases

\* a line of commentary as the specification describes it: it starts with
\* a heading marker or holds 'Summary' or 'Items Unchanged'
Str_SummaryWord == <<"S","u","m","m","a","r","y">>

IsCommentary(line) ==
    \/ StartsWith(line, <<"#">>)
    \/ Contains(Str_SummaryWord, line)
    \/ Contains(Str_ItemsUnchanged, line)

\* the list a header line opens
SectionOf(header) ==
    IF header = Chomp(Hdr_Added) THEN "added"
    ELSE IF header = Chomp(Hdr_Removed) THEN "removed"
    ELSE "changed"

\* C19 as stated: under a section header every line with a bullet prefix
\* and an item text gives exactly one entry of that section's list,
\* whatever words the item text holds (lines of commentary set aside).
C19_EveryBulletLineIsAnEntry ==
    (/\ trial.via = "parse"
     /\ trial.arg # <<>>
     /\ trial.arg[1] \in HeaderLines
     /\ \A j \in 2..Len(trial.arg) :
           HasBulletPrefix(trial.arg[j]) /\ ~IsCommentary(trial.arg[j]))
        => /\ Len(trial.ret[1][SectionOf(trial.arg[1])]) =
                  Cardinality({j \in 2..Len(trial.arg) :
                                  HasItemText(trial.arg[j])})
           /\ \A sec \in Sections \ {SectionOf(trial.arg[1])} :
                  trial.ret[1][sec] = <<>>

\* a section header line: ADDED and ITEM, REMOVED and ITEM, or QUANTITY and
\* CHANGED, in any letter case
IsSectionHeader(line) ==
    \/ Contains(Str_ADDED, Upper(line)) /\ Contains(Str_ITEM, Upper(line))
    \/ Contains(Str_REMOVED, Upper(line)) /\ Contains(Str_ITEM, Upper(line))
    \/ Contains(Str_QUANTITY, Upper(line)) /\ Contains(Str_CHANGED, Upper(line))

\* line j comes after one of the lines resets with no section header since
Muted(lines, resets, j) ==
    \E i \in resets :
        i <= j /\ \A k \in (i + 1)..j : ~IsSectionHeader(lines[k])

\* the lines that are not muted, in order
Audible(lines, resets) ==
    LET idx == {j \in 1..Len(lines) : ~Muted(lines, resets, j)}
    IN  [n \in 1..Cardinality(idx) |->
            lines[CHOOSE j \in idx : Cardinality({i \in idx : i < j}) = n - 1]]

\* C15 as stated: a line that is no section header and starts with '#' or
\* holds 'Summary' or 'Items Unchanged' resets the section: the lines from
\* it up to the next section header add nothing to any list.
C15_CommentaryResetsSection ==
    trial.via = "parse" =>
        trial.ret[1] =
            parse_changes(JoinLines(Audible(trial.arg,
                {i \in 1..Len(trial.arg) :
                    /\ ~IsSectionHeader(trial.arg[i])
                    /\ IsCommentary(Strip(trial.arg[i]))})))

\* C15 amended: a line that is no section header and starts with '#',
\* starts with '**Summary' or holds 'Items Unchanged' resets the section;
\* a line that merely holds 'Summary' does not.
C15_MarkedCommentaryResetsSection ==
    trial.via = "parse" =>
        trial.ret[1] =
            parse_changes(JoinLines(Audible(trial.arg,
                {i \in 1..Len(trial.arg) :
                    /\ ~IsSectionHeader(trial.arg[i])
                    /\ \/ StartsWith(Strip(trial.arg[i]), <<"#">>)
                       \/ StartsWith(Strip(trial.arg[i]),
                                     <<"*", "*">> \o Str_SummaryWord)
                       \/ Contains(Str_ItemsUnchanged, trial.arg[i])})))

C15_Witness ==
    /\ trial.via = "parse"
    /\ trial.arg = <<Chomp(Hdr_Added), Line_BoldSummary, DashLine(T_Cola)>>
    /\ trial.ret[1] = EmptyChanges

\* C16 as stated: when the database is unreachable at the start of a run
\* or the call of the vision model fails, in the comparison path or in the
\* initial-inventory path, the run aborts with an error.
C16_ConnectivityFailureAborts ==
    (pc = "idle" /\ run > 0
       /\ (~db \/ hist.failure \in {"api_compare", "api_initial"}))
        => result = "raised"

\* C16 amended: a run aborts exactly when the camera fails, when the call
\* of the vision model fails in the comparison path, or when a database
\* call fails in the initial-inventory loop.  An unreachable database is
\* reported and the run goes on without persistence; a failed call in the
\* initial-inventory path is reported and taken as an empty inventory.
C16_OnlyComparisonCallFailureAborts ==
    (pc = "idle" /\ run > 0) =>
        /\ result = "raised" <=>
              \/ hist.failure \in {"camera", "api_compare"}
              \/ hist.db_failed /\ last.mode = "initial"
        /\ (~db \/ hist.failure = "api_initial")
              => /\ items = hist.begin.items
                 /\ changes = hist.begin.changes

C16_Witness ==
    /\ pc = "idle" /\ run > 1
    /\ ~db /\ result = "complete"
    /\ items # <<>>

\* C17 as stated: a remove without an exact match decrements an item only
\* if the item was active and its lower-cased name holds the lower-cased
\* removal name as a literal substring.
C17_FuzzyIsLiteralSubstring ==
    (Removed /\ RowsNamed(last.items, last.name) = {})
        => \A i \in last.tgt :
              /\ last.items[i].is_active
              /\ Contains(Lower(last.name), Lower(last.items[i].item_name))

\* the rows named name that are inactive with quantity 0
C18_InactiveExact(its, name) ==
    {i \in RowsNamed(its, name) :
        ~its[i].is_active /\ its[i].current_quantity = 0}

\* C18: a remove_item whose name matches some row exactly (ignoring case)
\* updates no other row; when the matched row is inactive with quantity 0,
\* no row's quantity or active flag changes, whatever active items contain
\* the name.
C18_FuzzyOnlyWithoutExactRow ==
    (last.op = "remove_item" /\ last.ok
        /\ RowsNamed(last.items, last.name) # {})
    => /\ last.tgt = RowsNamed(last.items, last.name)
       /\ \A i \in 1..Len(items) :
             i \notin RowsNamed(last.items, last.name)
                 => items[i] = last.items[i]
       /\ (C18_InactiveExact(last.items, last.name)
               = RowsNamed(last.items, last.name)
            => QtyActive(items) = QtyActive(last.items))

\* an exact match that is inactive with quantity 0, next to an active item
\* of another name that contains the removal name, and nothing changed
C18_Witness ==
    /\ last.op = "remove_item" /\ last.ok
    /\ RowsNamed(last.items, last.name) # {}
    /\ C18_InactiveExact(last.items, last.name)
           = RowsNamed(last.items, last.name)
    /\ ActiveContaining(last.items, last.name)
           \ RowsNamed(last.items, last.name) # {}
    /\ QtyActive(items) = QtyActive(last.items)

\* C20 as stated: the 'removed' change record written for a removal that
\* decremented an item is among the rows get_item_history returns for that
\* item's stored name, for exact and fuzzy removals alike.
C20_RemovalInItemHistory ==
    (last.op = "log_removed" /\ last.ok)
    => \A i \in last.tgt :
          items[i].current_quantity < last.items[i].current_quantity
          => \E k \in 1..Len(get_item_history(changes, scans,
                                                items[i].item_name)) :
                get_item_history(changes, scans, items[i].item_name)[k]
                    = <<"removed", changes[Len(changes)].details,
                        changes[Len(changes)].detected_at,
                        scans[changes[Len(changes)].scan_id].scan_date>>

\* C22: after any sequence of add_item and remove_item calls made one at a
\* time from the empty table, no two rows have names that are equal ignoring
\* letter case, and a remove_item that matched exactly updated at most one
\* row.
C22_NamesUniqueIgnoringCase ==
    /\ \A i, j \in 1..Len(items) :
          Lower(items[i].item_name) = Lower(items[j].item_name) => i = j
    /\ (last.op = "remove_item" /\ last.ok
            /\ RowsNamed(last.items, last.name) # {})
        => Cardinality(last.tgt) <= 1

\* an exact-match remove under another spelling than the stored one, of a
\* row that counted at least two adds, in a table of at least two rows
C22_Witness ==
    /\ last.op = "remove_item" /\ last.ok
    /\ Len(last.items) >= 2
    /\ \E i \in RowsNamed(last.items, last.name) :
          /\ last.tgt = {i}
          /\ last.items[i].item_name # last.name
          /\ last.items[i].current_quantity >= 2
          /\ items[i].current_quantity = last.items[i].current_quantity - 1

\* name, quantity and active flag of every row, in item_id order
ItemState(its) ==
    [i \in 1..Len(its) |->
        <<its[i].item_name, its[i].current_quantity, its[i].is_active>>]

\* the tables save_to_database can leave when it starts from one of the
\* tables S and every call succeeds: the adds of ds, then the removes of ds
RECURSIVE AfterAdds(_, _)
AfterAdds(S, ds) ==
    IF ds = <<>> THEN S
    ELSE AfterAdds(
           UNION {{add_item(its, CleanNameOf(Head(ds)), tgt, 0) :
                     tgt \in AddTargets(its, CleanNameOf(Head(ds)))} :
                  its \in S},
           Tail(ds))

RECURSIVE AfterRemoves(_, _)
AfterRemoves(S, ds) ==
    IF ds = <<>> THEN S
    ELSE AfterRemoves(
           UNION {{remove_item(its, tgt, 0) :
                     tgt \in RemoveTargets(its, CleanNameOf(Head(ds)))} :
                  its \in S},
           Tail(ds))

SavedItems(chg) == AfterRemoves(AfterAdds({<<>>}, chg.added), chg.removed)

\* the order o with the ADDED and the REMOVED section in each other's place
SwapAddedRemoved(o) ==
    [i \in 1..3 |-> IF o[i] = "added" THEN "removed"
                    ELSE IF o[i] = "removed" THEN "added"
                    ELSE o[i]]

\* while adds are applied no remove or quantity change of the scan has been
\* applied, while removes are applied all adds and no quantity change have
AppliedInFixedOrder ==
    mode = "compare" =>
      /\ pc \in {"add_item", "log_added"}
           => /\ todo.removed = ChangesOf(response_text).removed
              /\ todo.changed = ChangesOf(response_text).changed
      /\ pc \in {"remove_item", "log_removed"}
           => /\ todo.added = <<>>
              /\ todo.changed = ChangesOf(response_text).changed
      /\ pc = "log_changed" => todo.added = <<>> /\ todo.removed = <<>>

\* the items a completed save leaves are items that the same text with its
\* ADDED and REMOVED sections exchanged can leave
SameItemsWhenSwapped ==
    (pc = "finish" /\ ~hist.db_failed)
    => ItemState(items) \in
         {ItemState(its) :
            its \in SavedItems(ChangesOf(
                       SectionsText(SwapAddedRemoved(trial.via), trial.arg)))}

\* C21 as stated: within one scan the events are applied all added, then
\* all removed, then all quantity-changed, in whatever order the sections
\* appear in the text, and the final item state of a text is the same
\* whether its REMOVED section comes before or after its ADDED section.
C21_OrderOfSectionsIrrelevant == AppliedInFixedOrder /\ SameItemsWhenSwapped

====
